---- MODULE Spec2Model ----
(***************************************************************************)
(* Model of src/main.py, a Streamlit script: the session state (day,       *)
(* request_count, daily_limit, history, input_text), the script run that   *)
(* every user event starts (daily reset, sidebar, buttons), and the        *)
(* generate handler with its try/except around the Gemini call.            *)
(***************************************************************************)
EXTENDS Integers, Sequences, FiniteSets, TLC

VARIABLES
    clock,          \* the calendar day date.today() returns (environment)
    day,            \* st.session_state.day
    request_count,  \* st.session_state.request_count ("used")
    daily_limit,    \* st.session_state.daily_limit ("limit")
    history,        \* st.session_state.history: sequence of <<role, msg>>
    input_text,     \* st.session_state.input_text: sequence of characters
    remaining,      \* the sidebar's `remaining` of the latest script run
    pc,             \* "Idle": no script run active; "Summarizing": call in flight
    event,          \* the widget that started the latest script run
    called,         \* generate_content was invoked in the latest script run
    answer,         \* `answer` of the latest run: <<>> (unset) or <<a>>
    exc,            \* the exception caught at line 182 in the latest run
    shown,          \* what the latest run displayed from line 77 on
    pending,        \* the widget event that arrived while the call was in
                    \* flight and waits for the script to rerun, or <<"none">>
    options,        \* the values of the four option widgets
    uploaded,       \* the file the uploader holds
    sent,           \* the arguments of the generate_content call of the
                    \* latest run: <<>> (no call) or <<request>>
    metrics         \* the metrics of the latest run: <<>> or <<record>>

vars == <<clock, day, request_count, daily_limit, history, input_text,
          remaining, pc, event, called, answer, exc, shown, pending,
          options, uploaded, sent, metrics>>

---------------------------------------------------------------------------
(* Bounds of the model *)
MaxDay == 2
MaxUsed == 2
MaxHist == 4
MaxErrLen == 3
MaxPages == 2
MaxWords == 8

(* Program constants *)
DefaultLimit == 50

Max(a, b) == IF a >= b THEN a ELSE b

SeqsUpTo(S, n) == UNION {[1..k -> S] : k \in 0..n}

---------------------------------------------------------------------------
(* Input text: a sequence of characters, a blank or a letter. The texts the
   user enters: "", " ", "a a", " a " *)
Texts == {<<>>, <<" ">>, <<"a", " ", "a">>, <<" ", "a", " ">>}

\* not text_input.strip()
IsBlank(text) == \A i \in 1..Len(text) : text[i] = " "

\* len(text_input.split()): the maximal runs of non-blank characters
WordCount(text) ==
    Cardinality({i \in 1..Len(text) :
                    text[i] # " " /\ (i = 1 \/ text[i-1] = " ")})

Preview(text) == <<"Text submitted", WordCount(text), "words">>

(* What response.text can be: a summary, or None when the response holds
   no text part *)
NoText == "None"
Answers == {"summary"}

---------------------------------------------------------------------------
(* Error text str(e): a sequence of tokens; a digit token stands for its
   digits, every other token for a word without digits *)
DigitTokens == {"0", "1", "429"}
ErrTokens == {"RESOURCE_EXHAUSTED", "quotaValue"} \cup DigitTokens
ErrTexts == SeqsUpTo(ErrTokens, MaxErrLen)

Digits(tok) ==
    CASE tok = "0" -> <<0>>
      [] tok = "1" -> <<1>>
      [] tok = "429" -> <<4, 2, 9>>

RECURSIVE Flatten(_)
\* the characters of the text: digits as numbers, words as themselves
Flatten(txt) ==
    IF txt = <<>> THEN <<>>
    ELSE (IF Head(txt) \in DigitTokens
             THEN [i \in 1..Len(Digits(Head(txt))) |-> <<"d", Digits(Head(txt))[i]>>]
             ELSE << <<"w", Head(txt)>> >>) \o Flatten(Tail(txt))

IsDigit(c) == c[1] = "d"

\* "RESOURCE_EXHAUSTED" in txt or "429" in txt
IsQuotaError(txt) ==
    LET f == Flatten(txt) IN
    \/ \E i \in 1..Len(f) : f[i] = <<"w", "RESOURCE_EXHAUSTED">>
    \/ \E i \in 1..Len(f) - 2 :
          /\ f[i] = <<"d", 4>> /\ f[i+1] = <<"d", 2>> /\ f[i+2] = <<"d", 9>>

RECURSIVE DecimalValue(_, _)
\* int() of a run of digits, `acc` the value of the digits read so far
DecimalValue(ds, acc) ==
    IF ds = <<>> THEN acc ELSE DecimalValue(Tail(ds), 10 * acc + Head(ds)[2])

\* re.search(r'quotaValue[^\d]*(\d+)', txt): <<>> for no match, else
\* <<int(match.group(1))>>
QuotaValueMatch(txt) ==
    LET f == Flatten(txt)
        starts == {i \in 1..Len(f) : f[i] = <<"w", "quotaValue">>}
    IN  IF starts = {} THEN <<>>
        ELSE LET s == CHOOSE i \in starts : \A j \in starts : i <= j
                 ds == {i \in (s+1)..Len(f) : IsDigit(f[i])}
             IN  IF ds = {} THEN <<>>
                 ELSE LET b == CHOOSE i \in ds : \A j \in ds : i <= j
                          e == CHOOSE i \in b..Len(f) :
                                  /\ \A j \in b..i : IsDigit(f[j])
                                  /\ (i = Len(f) \/ ~IsDigit(f[i+1]))
                      IN  << DecimalValue(SubSeq(f, b, e), 0) >>

\* what the except branch reads off the exception text
Classify(txt) ==
    [quota |-> IsQuotaError(txt),
     match |-> IF IsQuotaError(txt) THEN QuotaValueMatch(txt) ELSE <<>>]

CallErrors == {Classify(txt) : txt \in ErrTexts}

\* str(e) of the exception raised on answer = None after line 167: it
\* names the type of the value, and holds none of the tokens looked for
OutputErrText == <<"Invalid binary data format">>

NoExc == [at |-> "none", quota |-> FALSE, match |-> <<>>]

---------------------------------------------------------------------------
(* Pieces of the script run *)

\* lines 26-28: used after the daily reset
DailyResetCount(d, today, used) == IF d # today THEN 0 ELSE used

\* the daily reset restoring the limit of a new session
DailyResetLimit_Default(d, today, limit) ==
    IF d # today THEN DefaultLimit ELSE limit

\* the daily reset repairing a limit of 0
DailyResetLimit_ZeroRestored(d, today, limit) ==
    IF d # today /\ limit = 0 THEN DefaultLimit ELSE limit

\* lines 26-28: the limit after the daily reset
DailyResetLimit(d, today, limit) == limit

\* line 49
Remaining(used, limit) == Max(0, limit - used)

\* the comparison lets a request through at used = limit
QuotaReached_OffByOne(used, limit) == used > limit

\* a limit of 0 read as "no limit", as line 51 reads it for the progress bar
QuotaReached_ZeroUnlimited(used, limit) == limit > 0 /\ used >= limit

\* line 127
QuotaReached(used, limit) == used >= limit

\* the request counted twice
Commit_Twice(used) == used + 2

\* line 158
Commit(used) == used + 1

\* the two entries appended in the other order
HistoryAfterSuccess_AiFirst(h, text, a) ==
    Append(Append(h, <<"ai", a>>), <<"user", Preview(text)>>)

\* the ai entry left out
HistoryAfterSuccess_UserOnly(h, text, a) ==
    Append(h, <<"user", Preview(text)>>)

\* lines 161-163
HistoryAfterSuccess(h, text, a) ==
    Append(Append(h, <<"user", Preview(text)>>), <<"ai", a>>)

\* the reported limit adopted only when it lowers the limit
LimitAfterError_OnlyLower(limit, e) ==
    IF e.quota /\ e.match # <<>> /\ e.match[1] < limit
        THEN e.match[1] ELSE limit

\* lines 186-189
LimitAfterError(limit, e) ==
    IF e.quota /\ e.match # <<>> THEN e.match[1] ELSE limit

\* lines 186-194
ErrorDisplay(e) ==
    IF e.quota THEN <<"error:Gemini quota reached", "info:Daily limit">>
    ELSE <<"error:txt">>

---------------------------------------------------------------------------
(* Summary options: the four widgets of lines 98-110 *)
Lengths == {"Very short", "Short", "Balanced", "Detailed", "Very detailed"}

\* three of the slider's positions (50 to 1000 in steps of 50)
TokenChoices == {50, 300, 1000}

Languages == {"English", "Hindi"}

Formats == {"Paragraph", "Bullet points"}

OptionSets ==
    [length : Lengths, max_tokens : TokenChoices, language : Languages,
     format : Formats]

\* the widgets' values before the user touches them
DefaultOptions ==
    [length |-> "Balanced", max_tokens |-> 300, language |-> "English",
     format |-> "Paragraph"]

\* one temperature for every length
TempMap_Default(length) == <<5, 10>>

\* temp_map[summary_length], as the decimal fraction <<numerator, 10>>
TempMap(length) ==
    CASE length = "Very short"    -> <<1, 10>>
      [] length = "Short"         -> <<3, 10>>
      [] length = "Balanced"      -> <<5, 10>>
      [] length = "Detailed"      -> <<7, 10>>
      [] length = "Very detailed" -> <<9, 10>>

\* summary_length.lower()
Lower(length) ==
    CASE length = "Very short"    -> "very short"
      [] length = "Short"         -> "short"
      [] length = "Balanced"      -> "balanced"
      [] length = "Detailed"      -> "detailed"
      [] length = "Very detailed" -> "very detailed"

\* the arguments of generate_content: the prompt's four fields and the
\* config
Request(o, text) ==
    [prompt |-> <<Lower(o.length), o.language, o.format, text>>,
     temperature |-> TempMap(o.length),
     max_output_tokens |-> o.max_tokens]

---------------------------------------------------------------------------
(* Metrics *)

\* the characters of the answer: one word
SummaryText(a) == <<"s", "u", "m", "m", "a", "r", "y">>

\* the reduction computed without the guard on `original`
Reduction_Unguarded(original, summ) == <<(original - summ) * 100, original>>

\* ((original - summ)/original*100) if original else 0, as the fraction
\* <<numerator, denominator>>; a denominator of 0 is a division by zero
Reduction(original, summ) ==
    IF original # 0 THEN <<(original - summ) * 100, original>>
    ELSE <<0, 1>>

\* lines 173-175
Metrics(original, summ) ==
    [original |-> original, summ |-> summ,
     reduction |-> Reduction(original, summ)]

---------------------------------------------------------------------------
(* Uploaded file: what st.file_uploader holds. `valid`: the bytes decode
   (txt), PdfReader accepts the file (pdf). A pdf page is what its
   extract_text() does: returns the text "a", returns None, or raises *)
NoFile == [type |-> "none", valid |-> TRUE, text |-> <<>>, pages |-> <<>>]

TxtFiles ==
    {[type |-> "text/plain", valid |-> v, text |-> <<"a">>, pages |-> <<>>] :
        v \in BOOLEAN}

PageOutcomes == {"a", NoText, "raise"}

PdfFiles ==
    {[type |-> "application/pdf", valid |-> TRUE, text |-> <<>>,
      pages |-> p] : p \in SeqsUpTo(PageOutcomes, MaxPages)}
    \cup {[type |-> "application/pdf", valid |-> FALSE, text |-> <<>>,
           pages |-> <<>>]}

Files == {NoFile} \cup TxtFiles \cup PdfFiles

\* p.extract_text() or ""
PageText(p) == IF p = NoText THEN <<>> ELSE <<p>>

RECURSIVE ExtractPages(_, _)
\* lines 85-87: the loop over the pages, `text` what was read so far; it
\* stops at the page whose extract_text() raises
ExtractPages(pages, text) ==
    IF pages = <<>> THEN [ok |-> TRUE, text |-> text]
    ELSE IF Head(pages) = "raise" THEN [ok |-> FALSE, text |-> text]
    ELSE ExtractPages(Tail(pages), text \o PageText(Head(pages)))

\* lines 83-87
ReadPdf(f) ==
    IF f.valid THEN ExtractPages(f.pages, <<>>)
    ELSE [ok |-> FALSE, text |-> <<>>]

\* the text read up to the failure stored
TextAfterPdf_Partial(stored, r) == r.text

\* line 88 is reached only when nothing raised before it
TextAfterPdf(stored, r) == IF r.ok THEN r.text ELSE stored

PdfWarning == "warning:PDF read failed"

\* lines 77-90 when the run gets past them: the value of input_text and
\* what was displayed. The assignments of lines 79 and 88 come after the
\* text area with key input_text was created (line 71): Streamlit may
\* refuse such an assignment with an exception, which line 89 catches for
\* a pdf
FileRead(f, stored) ==
    CASE f.type = "none" -> {[text |-> stored, shown |-> <<>>]}
      [] f.type = "text/plain" ->
            IF f.valid THEN {[text |-> f.text, shown |-> <<>>]} ELSE {}
      [] f.type = "application/pdf" ->
            {[text |-> TextAfterPdf(stored, ReadPdf(f)),
              shown |-> IF ReadPdf(f).ok THEN <<>> ELSE <<PdfWarning>>],
             [text |-> stored, shown |-> <<PdfWarning>>]}

\* line 79 can raise (the bytes do not decode, or the assignment is
\* refused); nothing catches it and the run ends there
FileReadRaises(f) == f.type = "text/plain"

NoEvent == <<"none">>

\* the widget events modelled as arriving during a call: the two buttons
\* that write the quota state or the history
Triggers == {<<"generate">>, <<"clear">>}

\* a script run for the event ev starts: on the event itself when no script
\* is running, or as the rerun held back during the call
RunStarts(ev) == pc = "Idle" \/ (pc = "Rerun" /\ pending = ev)

\* the running script is stopped at its next st.* command (the rerun
\* request is raised there as a BaseException, which `except Exception`
\* does not catch) and the script reruns for the waiting event
Interrupted == pending # NoEvent

\* where the run goes when the try statement is left
AfterTry == IF Interrupted THEN "Rerun" ELSE "Idle"

\* lines 19-53: the top of every script run
RunTop ==
    /\ day' = clock
    /\ remaining' = Remaining(DailyResetCount(day, clock, request_count),
                              DailyResetLimit(day, clock, daily_limit))
    /\ clock' = clock

---------------------------------------------------------------------------
Init ==
    /\ clock = 1
    /\ day = 1
    /\ request_count = 0
    /\ daily_limit = DefaultLimit
    /\ history = <<>>
    /\ input_text = <<>>
    /\ remaining = Remaining(0, DefaultLimit)
    /\ pc = "Idle"
    /\ event = "none"
    /\ called = FALSE
    /\ answer = <<>>
    /\ exc = NoExc
    /\ shown = <<>>
    /\ pending = NoEvent
    /\ options = DefaultOptions
    /\ uploaded = NoFile
    /\ sent = <<>>
    /\ metrics = <<>>

\* midnight passes
Tick ==
    /\ clock < MaxDay
    /\ clock' = clock + 1
    /\ UNCHANGED <<day, request_count, daily_limit, history, input_text,
                   remaining, pc, event, called, answer, exc, shown,
                   pending, options, uploaded, sent, metrics>>

\* a widget event arrives while the script is blocked in generate_content.
\* No widget of the script is disabled during a run, so Streamlit accepts
\* the event and holds the rerun it asks for until the running script gets
\* to its next st.* command; one waiting event is modelled
Trigger(ev) ==
    /\ pc = "Summarizing"
    /\ pending = NoEvent
    /\ pending' = ev
    /\ UNCHANGED <<clock, day, request_count, daily_limit, history,
                   input_text, remaining, pc, event, called, answer, exc,
                   shown, options, uploaded, sent, metrics>>

\* a script run that ends before the generate button is evaluated or with
\* the button not pressed
RunEnds ==
    /\ called' = FALSE /\ answer' = <<>> /\ exc' = NoExc
    /\ sent' = <<>> /\ metrics' = <<>>
    /\ pc' = "Idle" /\ pending' = NoEvent

\* the user edits the text area: a script run with no button pressed
RunEdit(text) ==
    /\ RunStarts(<<"edit", text>>)
    /\ RunTop
    /\ request_count' = DailyResetCount(day, clock, request_count)
    /\ daily_limit' = DailyResetLimit(day, clock, daily_limit)
    /\ \E r \in FileRead(uploaded, text) :
          input_text' = r.text /\ shown' = r.shown
    /\ event' = "edit"
    /\ RunEnds
    /\ UNCHANGED <<history, options, uploaded>>

\* the user moves one of the option widgets
RunSetOptions(o) ==
    /\ RunStarts(<<"options", o>>)
    /\ Cardinality({k \in DOMAIN o : o[k] # options[k]}) = 1
    /\ RunTop
    /\ request_count' = DailyResetCount(day, clock, request_count)
    /\ daily_limit' = DailyResetLimit(day, clock, daily_limit)
    /\ \E r \in FileRead(uploaded, input_text) :
          input_text' = r.text /\ shown' = r.shown
    /\ options' = o
    /\ event' = "options"
    /\ RunEnds
    /\ UNCHANGED <<history, uploaded>>

\* the user puts a file into the uploader or takes it out (f = NoFile)
RunUpload(f) ==
    /\ RunStarts(<<"upload", f>>)
    /\ RunTop
    /\ request_count' = DailyResetCount(day, clock, request_count)
    /\ daily_limit' = DailyResetLimit(day, clock, daily_limit)
    /\ uploaded' = f
    /\ \E r \in FileRead(f, input_text) :
          input_text' = r.text /\ shown' = r.shown
    /\ event' = "upload"
    /\ RunEnds
    /\ UNCHANGED <<history, options>>

\* a script run that ends at line 79 with an uncaught exception: what
\* comes before that line has taken effect, the generate button is not
\* reached
RunFileReadRaises(ev) ==
    /\ RunStarts(ev)
    /\ RunTop
    /\ request_count' = DailyResetCount(day, clock, request_count)
    /\ daily_limit' = DailyResetLimit(day, clock, daily_limit)
    /\ uploaded' = (IF ev[1] = "upload" THEN ev[2] ELSE uploaded)
    /\ FileReadRaises(uploaded')
    /\ input_text' = (IF ev[1] = "edit" THEN ev[2] ELSE input_text)
    /\ history' = (IF ev[1] = "clear" THEN <<>> ELSE history)
    /\ options' = (IF ev[1] = "options" THEN ev[2] ELSE options)
    /\ event' = ev[1]
    /\ shown' = <<"exception:file read">>
    /\ RunEnds

\* the clear button starting the usage count over as well
RunClear_ResetsCount ==
    /\ RunStarts(<<"clear">>)
    /\ RunTop
    /\ request_count' = 0
    /\ daily_limit' = DailyResetLimit(day, clock, daily_limit)
    /\ history' = <<>>
    /\ \E r \in FileRead(uploaded, input_text) :
          input_text' = r.text /\ shown' = r.shown
    /\ event' = "clear"
    /\ RunEnds
    /\ UNCHANGED <<options, uploaded>>

\* the user presses "Clear chat"
RunClear ==
    /\ RunStarts(<<"clear">>)
    /\ RunTop
    /\ request_count' = DailyResetCount(day, clock, request_count)
    /\ daily_limit' = DailyResetLimit(day, clock, daily_limit)
    /\ history' = <<>>
    /\ \E r \in FileRead(uploaded, input_text) :
          input_text' = r.text /\ shown' = r.shown
    /\ event' = "clear"
    /\ RunEnds
    /\ UNCHANGED <<options, uploaded>>

\* "Generate Summary" with the quota used up: lines 127-129
GenerateRejectQuota ==
    /\ RunStarts(<<"generate">>)
    /\ RunTop
    /\ QuotaReached(DailyResetCount(day, clock, request_count),
                    DailyResetLimit(day, clock, daily_limit))
    /\ request_count' = DailyResetCount(day, clock, request_count)
    /\ daily_limit' = DailyResetLimit(day, clock, daily_limit)
    /\ \E r \in FileRead(uploaded, input_text) :
          /\ input_text' = r.text
          /\ shown' = r.shown \o <<"error:Daily limit reached">>
    /\ event' = "generate"
    /\ RunEnds
    /\ UNCHANGED <<history, options, uploaded>>

\* the input checked before the quota
GenerateRejectEmpty_First ==
    /\ RunStarts(<<"generate">>)
    /\ RunTop
    /\ request_count' = DailyResetCount(day, clock, request_count)
    /\ daily_limit' = DailyResetLimit(day, clock, daily_limit)
    /\ \E r \in FileRead(uploaded, input_text) :
          /\ IsBlank(r.text)
          /\ input_text' = r.text
          /\ shown' = r.shown \o <<"warning:Enter text first">>
    /\ event' = "generate"
    /\ RunEnds
    /\ UNCHANGED <<history, options, uploaded>>

\* the request counted before the input is validated
GenerateRejectEmpty_Charged ==
    /\ RunStarts(<<"generate">>)
    /\ RunTop
    /\ ~QuotaReached(DailyResetCount(day, clock, request_count),
                     DailyResetLimit(day, clock, daily_limit))
    /\ DailyResetCount(day, clock, request_count) < MaxUsed
    /\ request_count' = Commit(DailyResetCount(day, clock, request_count))
    /\ daily_limit' = DailyResetLimit(day, clock, daily_limit)
    /\ \E r \in FileRead(uploaded, input_text) :
          /\ IsBlank(r.text)
          /\ input_text' = r.text
          /\ shown' = r.shown \o <<"warning:Enter text first">>
    /\ event' = "generate"
    /\ RunEnds
    /\ UNCHANGED <<history, options, uploaded>>

\* "Generate Summary" with blank text: lines 131-133
GenerateRejectEmpty ==
    /\ RunStarts(<<"generate">>)
    /\ RunTop
    /\ ~QuotaReached(DailyResetCount(day, clock, request_count),
                     DailyResetLimit(day, clock, daily_limit))
    /\ request_count' = DailyResetCount(day, clock, request_count)
    /\ daily_limit' = DailyResetLimit(day, clock, daily_limit)
    /\ \E r \in FileRead(uploaded, input_text) :
          /\ IsBlank(r.text)
          /\ input_text' = r.text
          /\ shown' = r.shown \o <<"warning:Enter text first">>
    /\ event' = "generate"
    /\ RunEnds
    /\ UNCHANGED <<history, options, uploaded>>

\* the request counted when the call is issued
GenerateCall_Reserves ==
    /\ RunStarts(<<"generate">>)
    /\ RunTop
    /\ ~QuotaReached(DailyResetCount(day, clock, request_count),
                     DailyResetLimit(day, clock, daily_limit))
    /\ request_count' = Commit(DailyResetCount(day, clock, request_count))
    /\ daily_limit' = DailyResetLimit(day, clock, daily_limit)
    /\ \E r \in FileRead(uploaded, input_text) :
          /\ ~IsBlank(r.text)
          /\ input_text' = r.text
          /\ shown' = r.shown
          /\ sent' = <<Request(options, r.text)>>
    /\ event' = "generate"
    /\ called' = TRUE /\ answer' = <<>> /\ exc' = NoExc /\ metrics' = <<>>
    /\ pc' = "Summarizing" /\ pending' = NoEvent
    /\ UNCHANGED <<history, options, uploaded>>

\* "Generate Summary" passes validation and invokes generate_content:
\* lines 135-155
GenerateCall ==
    /\ RunStarts(<<"generate">>)
    /\ RunTop
    /\ ~QuotaReached(DailyResetCount(day, clock, request_count),
                     DailyResetLimit(day, clock, daily_limit))
    /\ request_count' = DailyResetCount(day, clock, request_count)
    /\ daily_limit' = DailyResetLimit(day, clock, daily_limit)
    /\ \E r \in FileRead(uploaded, input_text) :
          /\ ~IsBlank(r.text)
          /\ input_text' = r.text
          /\ shown' = r.shown
          /\ sent' = <<Request(options, r.text)>>
    /\ event' = "generate"
    /\ called' = TRUE /\ answer' = <<>> /\ exc' = NoExc /\ metrics' = <<>>
    /\ pc' = "Summarizing" /\ pending' = NoEvent
    /\ UNCHANGED <<history, options, uploaded>>

\* the call returns a response with text: lines 157-180
ApiReturn(a) ==
    /\ pc = "Summarizing"
    /\ request_count < MaxUsed
    /\ Len(history) + 2 <= MaxHist
    /\ answer' = <<a>>
    /\ request_count' = Commit(request_count)
    /\ history' = HistoryAfterSuccess(history, input_text, a)
    /\ IF Interrupted
          THEN \* stopped at st.subheader, line 166
               UNCHANGED <<shown, metrics>>
          ELSE /\ shown' = shown \o <<"subheader:Summary", "write:answer",
                                      "download_button", "metrics">>
               /\ metrics' = <<Metrics(WordCount(input_text),
                                       WordCount(SummaryText(a)))>>
    /\ pc' = AfterTry
    /\ UNCHANGED <<clock, day, daily_limit, input_text, remaining, event,
                   called, exc, pending, options, uploaded, sent>>

\* the call returns a response whose text is None (no text part in the
\* response): lines 157-167 run with answer = None, then the use of the
\* answer as a string (line 170, at the latest answer.split() of line 174)
\* raises and lines 182-194 handle the exception
ApiReturnNoText ==
    /\ pc = "Summarizing"
    /\ request_count < MaxUsed
    /\ Len(history) + 2 <= MaxHist
    /\ answer' = <<NoText>>
    /\ request_count' = Commit(request_count)
    /\ history' = HistoryAfterSuccess(history, input_text, NoText)
    /\ IF Interrupted
          THEN \* stopped at st.subheader, line 166: nothing raises
               /\ exc' = NoExc
               /\ daily_limit' = daily_limit
               /\ shown' = shown
          ELSE /\ exc' = [at |-> "output"] @@ Classify(OutputErrText)
               /\ daily_limit' =
                      LimitAfterError(daily_limit, Classify(OutputErrText))
               /\ shown' = shown \o <<"subheader:Summary", "write:answer">>
                             \o ErrorDisplay(Classify(OutputErrText))
    /\ pc' = AfterTry
    /\ UNCHANGED <<clock, day, input_text, remaining, event, called,
                   pending, options, uploaded, sent, metrics>>

\* the call issued again after it raised
ApiRaise_Retries(e) ==
    /\ pc = "Summarizing"
    /\ exc' = [at |-> "call"] @@ e
    /\ daily_limit' = LimitAfterError(daily_limit, e)
    /\ shown' = shown
    /\ pc' = "Summarizing"
    /\ UNCHANGED <<clock, day, request_count, history, input_text, remaining,
                   event, called, answer, pending, options, uploaded, sent,
                   metrics>>

\* the call raises: lines 182-194
ApiRaise(e) ==
    /\ pc = "Summarizing"
    /\ exc' = [at |-> "call"] @@ e
    /\ daily_limit' = LimitAfterError(daily_limit, e)
    /\ shown' = (IF Interrupted THEN shown ELSE shown \o ErrorDisplay(e))
    /\ pc' = AfterTry
    /\ UNCHANGED <<clock, day, request_count, history, input_text, remaining,
                   event, called, answer, pending, options, uploaded, sent,
                   metrics>>

\* a session without an uploaded file and with the options left as they
\* are
Next ==
    \/ Tick
    \/ \E ev \in Triggers : Trigger(ev)
    \/ \E text \in Texts : RunEdit(text)
    \/ RunClear
    \/ GenerateRejectQuota
    \/ GenerateRejectEmpty
    \/ GenerateCall
    \/ \E a \in Answers : ApiReturn(a)
    \/ ApiReturnNoText
    \/ \E e \in CallErrors : ApiRaise(e)

Spec == Init /\ [][Next]_vars

\* the errors of the call that are not quota errors
PlainErrors == {e \in CallErrors : ~e.quota}

\* a session on one day in which the user changes the options; no file is
\* uploaded and no quota error occurs
NextOptions ==
    \/ \E o \in OptionSets : RunSetOptions(o)
    \/ \E text \in Texts : RunEdit(text)
    \/ GenerateRejectEmpty
    \/ GenerateCall
    \/ \E a \in Answers : ApiReturn(a)
    \/ \E e \in PlainErrors : ApiRaise(e)

SpecOptions == Init /\ [][NextOptions]_vars

\* the widget events of a session with uploads
UploadEvents ==
    {<<"edit", t>> : t \in Texts} \cup {<<"upload", f>> : f \in Files}
    \cup {<<"clear">>, <<"generate">>}

\* a session on one day in which the user uploads files; the options stay
\* as they are and no quota error occurs
NextUpload ==
    \/ \E f \in Files : RunUpload(f)
    \/ \E text \in Texts : RunEdit(text)
    \/ RunClear
    \/ \E ev \in UploadEvents : RunFileReadRaises(ev)
    \/ GenerateRejectEmpty
    \/ GenerateCall
    \/ \E a \in Answers : ApiReturn(a)
    \/ \E e \in PlainErrors : ApiRaise(e)

SpecUpload == Init /\ [][NextUpload]_vars

\* the metrics of lines 173-175 for a pair of word counts
WordCounts == 0..MaxWords \cup {20, 100}

ComputeMetrics(original, summ) ==
    /\ metrics' = <<Metrics(original, summ)>>
    /\ UNCHANGED <<clock, day, request_count, daily_limit, history,
                   input_text, remaining, pc, event, called, answer, exc,
                   shown, pending, options, uploaded, sent>>

NextMetrics ==
    \E original \in WordCounts, summ \in WordCounts :
        ComputeMetrics(original, summ)

SpecMetrics == Init /\ [][NextMetrics]_vars

---------------------------------------------------------------------------
(* Properties *)

QuotaMsg == <<"error:Daily limit reached">>
EmptyMsg == <<"warning:Enter text first">>

\* the latest run showed one of the two validation messages
RejectedShown == shown \in {QuotaMsg, EmptyMsg}

\* the latest run showed an error from the except branch
ErrorShown ==
    \E i \in 1..Len(shown) :
        shown[i] \in {"error:Gemini quota reached", "error:txt"}

\* the latest run showed the summary
SummaryShown == \E i \in 1..Len(shown) : shown[i] = "write:answer"

\* a step in which the pending call resolves and the run ends
Resolves == pc = "Summarizing" /\ pc' # "Summarizing"

\* a step that is a script run started by the generate button
GenerateRun ==
    pc \in {"Idle", "Rerun"} /\ clock' = clock /\ event' = "generate"

RECURSIVE SplitCount(_, _)
\* the words of a text, read left to right; inWord: the previous
\* character was part of a word
SplitCount(text, inWord) ==
    IF text = <<>> THEN 0
    ELSE IF Head(text) = " " THEN SplitCount(Tail(text), FALSE)
    ELSE (IF inWord THEN 0 ELSE 1) + SplitCount(Tail(text), TRUE)

\* C1: a generate request that ends with an error message leaves `used`
\* and the history as they were, wherever in the guarded block the
\* exception was raised.
C1_FailureKeepsCountAndHistory ==
    [][(Resolves /\ ErrorShown')
          => (request_count' = request_count /\ history' = history)]_vars

\* C2: a generate request that succeeds adds exactly 1 to `used`, keeps
\* `limit`, and appends to the history a user entry with the preview of the
\* input's word count and then an ai entry with the summary, after the
\* earlier entries in their order.
C2_SuccessCommitsOnceAndAppendsPair ==
    [][(Resolves /\ answer' \in {<<a>> : a \in Answers})
          => /\ request_count' = request_count + 1
             /\ daily_limit' = daily_limit
             /\ exc' = NoExc /\ ~ErrorShown'
             /\ history' = history \o
                    << <<"user", <<"Text submitted",
                                   SplitCount(input_text, FALSE), "words">> >>,
                       <<"ai", answer'[1]>> >>]_vars

C2_Witness ==
    /\ pc = "Idle" /\ SummaryShown /\ ~ErrorShown
    /\ request_count = 2
    /\ Len(history) = 4
    /\ history[1][2][2] = 1
    /\ history[3][2][2] = 2

\* C3: a generate request rejected in validation makes no call to the
\* API and leaves `limit` and the history unchanged, and `used` and `day`
\* unchanged apart from the daily reset; the quota message is shown exactly
\* when used >= limit, the empty-input message only for blank text.
C3_RejectionHasNoEffect ==
    [][(GenerateRun /\ RejectedShown')
          => /\ ~called' /\ pc' = "Idle"
             /\ daily_limit' = daily_limit
             /\ history' = history
             /\ input_text' = input_text
             /\ day' = clock
             /\ request_count' = (IF day # clock THEN 0 ELSE request_count)
             /\ (shown' = QuotaMsg <=> request_count' >= daily_limit')
             /\ (shown' = EmptyMsg => SplitCount(input_text, FALSE) = 0)]_vars

C3_Witness ==
    /\ event = "generate" /\ shown = EmptyMsg
    /\ request_count > 0 /\ request_count < daily_limit
    /\ history # <<>>
    /\ input_text = <<" ">>

\* C4: once used = limit on some day, every step of that day keeps `used`
\* and `limit`, makes no call, and every generate request is rejected with
\* the quota message.
C4_ExhaustedStaysExhausted ==
    [][(day = clock /\ clock' = clock /\ request_count = daily_limit)
          => /\ request_count' = request_count
             /\ daily_limit' = daily_limit
             /\ day' = day
             /\ ~called' /\ pc' = "Idle"
             /\ (event' = "generate" => shown' = QuotaMsg)]_vars

C4_Witness ==
    /\ day = clock /\ request_count = daily_limit /\ daily_limit > 0
    /\ event = "generate" /\ shown = QuotaMsg
    /\ ~IsBlank(input_text)

\* C5 (as claimed): used <= limit in every reachable state.
C5_UsedNeverExceedsLimit == request_count <= daily_limit

\* C5 (amended): every step that changes `used` leaves used <= limit, and
\* used > limit arises only in the step of a quota error of the call that
\* overwrites `limit` with a reported value below `used`.
C5_OnlyLimitOverwriteExceeds ==
    [][/\ request_count' # request_count => request_count' <= daily_limit'
       /\ (request_count <= daily_limit /\ request_count' > daily_limit')
             => /\ Resolves /\ exc'.at = "call" /\ exc'.quota
                /\ exc'.match = <<daily_limit'>>
                /\ request_count' = request_count]_vars

C5_Witness ==
    /\ request_count > daily_limit
    /\ exc.at = "call" /\ exc.quota /\ exc.match = <<daily_limit>>

\* C6: the first script run on a day other than the stored one sets
\* used = 0 and day = today before its quota check and its sidebar, and
\* leaves `limit` at its last value.
C6_DailyResetKeepsLimit ==
    [][(pc \in {"Idle", "Rerun"} /\ day # clock /\ clock' = clock)
          => /\ day' = clock
             /\ request_count' = 0
             /\ daily_limit' = daily_limit
             /\ remaining' = (IF daily_limit > 0 THEN daily_limit ELSE 0)
             /\ (event' = "generate"
                   => (shown' = QuotaMsg <=> daily_limit <= 0))]_vars

C6_Witness ==
    /\ clock = 2 /\ day = 2 /\ pc = "Summarizing"
    /\ request_count = 0
    /\ daily_limit = 1
    /\ Len(history) = 2

\* C7: in every state the remaining count exposed for display equals
\* max(0, limit - used) and is not negative (so that it is limit - N
\* after N successful requests).
C7_RemainingIsLimitMinusUsed ==
    /\ remaining >= 0
    /\ remaining = (IF daily_limit - request_count > 0
                       THEN daily_limit - request_count ELSE 0)

RECURSIVE AfterToken(_)
\* the characters that follow the first quotaValue, <<>> when there is none
AfterToken(f) ==
    IF f = <<>> THEN <<>>
    ELSE IF Head(f) = <<"w", "quotaValue">> THEN Tail(f)
    ELSE AfterToken(Tail(f))

RECURSIVE FirstNumber(_, _)
\* the first integer in f: <<>> when f has no digit. acc: <<>> before the
\* first digit, then <<value of the digits read>>
FirstNumber(f, acc) ==
    IF f = <<>> THEN acc
    ELSE IF Head(f)[1] = "d"
         THEN FirstNumber(Tail(f),
                  <<10 * (IF acc = <<>> THEN 0 ELSE acc[1]) + Head(f)[2]>>)
         ELSE IF acc = <<>> THEN FirstNumber(Tail(f), acc) ELSE acc

\* the value the pattern search yields is the first integer after the
\* token quotaValue, for every error text
ExtractsFirstNumberAfterToken ==
    \A txt \in ErrTexts :
        QuotaValueMatch(txt) = FirstNumber(AfterToken(Flatten(txt)), <<>>)

\* C8: when the call fails, `used`, `day` and the history are unchanged;
\* `limit` becomes the value that follows quotaValue in a quota-class
\* error text, whether lower, equal or higher, and is unchanged when the
\* text has no such value or is not quota-class.
C8_QuotaErrorAdoptsReportedLimit ==
    [][(Resolves /\ exc'.at = "call")
          => /\ ExtractsFirstNumberAfterToken
             /\ request_count' = request_count
             /\ day' = day
             /\ history' = history
             /\ (exc'.quota /\ exc'.match # <<>>
                    => daily_limit' = exc'.match[1])
             /\ (exc'.quota /\ exc'.match = <<>>
                    => daily_limit' = daily_limit)
             /\ (~exc'.quota
                    => daily_limit' = daily_limit /\ exc'.match = <<>>)]_vars

C8_Witness ==
    /\ exc.at = "call" /\ exc.quota /\ exc.match = <<429>>
    /\ daily_limit = 429
    /\ request_count = 1 /\ Len(history) = 2

\* C9: with limit = 0, every generate request of the day is rejected with
\* the quota message, without a call, and `limit` stays 0.
C9_ZeroLimitRejectsAll ==
    [][(daily_limit = 0 /\ day = clock /\ clock' = clock)
          => /\ daily_limit' = 0
             /\ pc' = "Idle" /\ ~called'
             /\ (event' = "generate" => shown' = QuotaMsg)]_vars

C9_Witness ==
    /\ daily_limit = 0 /\ request_count = 0 /\ day = clock
    /\ event = "generate" /\ shown = QuotaMsg
    /\ ~IsBlank(input_text)

\* C10: a generate request ends Rejected without a call, or its call
\* resolves into exactly one of Done (used + 1, two history entries, the
\* summary shown, no error) and Failed (an error shown, none of the
\* effects of Done), and the session is idle again.
C10_ExactlyOneOutcome ==
    [][/\ GenerateRun
          => \/ RejectedShown' /\ ~called' /\ pc' = "Idle"
             \/ pc' = "Summarizing" /\ called' /\ shown' = <<>>
       /\ Resolves
          => /\ ~RejectedShown'
             /\ \/ /\ SummaryShown' /\ ~ErrorShown'
                   /\ request_count' = request_count + 1
                   /\ Len(history') = Len(history) + 2
                \/ /\ ErrorShown' /\ ~SummaryShown'
                   /\ request_count' = request_count
                   /\ history' = history]_vars

\* a step that is a script run started by the clear button
ClearRun == pc \in {"Idle", "Rerun"} /\ clock' = clock /\ event' = "clear"

C12_OneCallPerTrigger ==
    [][/\ (pc # "Summarizing" /\ pc' = "Summarizing")
          => /\ event' = "generate" /\ called'
             /\ (pc = "Idle" \/ pending = <<"generate">>)
       /\ (pc = "Summarizing" /\ pc' = "Summarizing")
          => /\ called' = called /\ event' = event
             /\ exc' = exc /\ answer' = answer
       /\ (Resolves /\ exc' # NoExc)
          => (pc' = "Idle" \/ pending' # NoEvent)]_vars

C12_Witness ==
    /\ pc = "Idle" /\ called /\ exc.at = "call" /\ ~exc.quota
    /\ event = "generate" /\ request_count = 1

\* C13: while the call is in flight `used`, `limit` and the history do not
\* change, and the run that issues the call has changed nothing but the
\* daily reset before it.
C13_NoMutationInFlight ==
    [][/\ (pc = "Summarizing" /\ pc' = "Summarizing")
          => UNCHANGED <<request_count, daily_limit, history>>
       /\ (pc # "Summarizing" /\ pc' = "Summarizing")
          => /\ history' = history
             /\ daily_limit' = daily_limit
             /\ request_count' = (IF day # clock THEN 0 ELSE request_count)]_vars

C13_Witness ==
    /\ pc = "Summarizing" /\ pending = <<"clear">>
    /\ Len(history) = 2 /\ request_count = 1

\* C14: a generate trigger that arrives while a request is in the
\* Summarizing state is not kept for later and starts no external call.
C14_TriggerDuringCallIgnored ==
    [][~(pc = "Rerun" /\ pending = <<"generate">> /\ pc' = "Summarizing")]_vars

C19_HistoryIsPairs ==
    /\ Len(history) % 2 = 0
    /\ \A i \in 1..Len(history) :
          history[i][1] = (IF i % 2 = 1 THEN "user" ELSE "ai")

C19_Witness ==
    /\ Len(history) = 4 /\ history[4] = <<"ai", NoText>>
    /\ pc = "Idle" /\ event = "edit"

\* C20: `limit` changes only in the quota-error branch of a request that
\* passed the quota check; a session with used >= limit gets below its
\* limit only by the daily reset; with limit = 0, `limit` stays 0 and no
\* request reaches the API, on any day.
C20_LimitWrittenOnlyByQuotaError ==
    [][/\ daily_limit' # daily_limit
          => /\ Resolves /\ exc'.at = "call" /\ exc'.quota
             /\ exc'.match = <<daily_limit'>>
             /\ request_count < daily_limit
       /\ (request_count >= daily_limit /\ request_count' < daily_limit')
          => /\ pc \in {"Idle", "Rerun"} /\ day # clock
             /\ request_count' = 0 /\ daily_limit' = daily_limit
       /\ daily_limit = 0
          => /\ daily_limit' = 0
             /\ pc' # "Summarizing"
             /\ (pc \in {"Idle", "Rerun"} /\ clock' = clock => ~called')]_vars

C20_Witness ==
    /\ daily_limit = 0 /\ clock = 2 /\ day = 2
    /\ event = "generate" /\ shown = QuotaMsg
    /\ ~IsBlank(input_text)

\* a step in which a script run invokes generate_content
Invokes == pc # "Summarizing" /\ pc' = "Summarizing"

\* the table of temperatures by length, in tenths
TemperatureTable ==
    [length \in Lengths |->
        CASE length = "Very short"    -> 1
          [] length = "Short"         -> 3
          [] length = "Balanced"      -> 5
          [] length = "Detailed"      -> 7
          [] length = "Very detailed" -> 9]

\* C15: the temperature of every generate_content call is the table's
\* value for the selected length (0.1, 0.3, 0.5, 0.7, 0.9 from very short
\* to very detailed), whatever the max tokens, the language, the format
\* and the input text are.
C15_TemperatureByLengthOnly ==
    [][Invokes =>
          /\ Len(sent') = 1
          /\ sent'[1].temperature[1] * 10
                = TemperatureTable[options'.length] * sent'[1].temperature[2]
          /\ sent'[1].max_output_tokens = options'.max_tokens]_vars

\* a call is in flight for a very short summary with the largest token
\* budget, in Hindi, as bullet points
C15_Witness ==
    /\ pc = "Summarizing"
    /\ Len(sent) = 1
    /\ sent[1].temperature = <<1, 10>>
    /\ sent[1].max_output_tokens = 1000
    /\ sent[1].prompt = <<"very short", "Hindi", "Bullet points",
                          <<" ", "a", " ">>>>

\* C16: for every pair of word counts the reduction is
\* (original - summary) / original * 100 when original > 0 and 0 when
\* original = 0, computed without a division by zero; 100 and 20 give
\* exactly 80.
C16_ReductionPercent ==
    \A i \in 1..Len(metrics) :
        LET original == metrics[i].original
            summ == metrics[i].summ
            num == metrics[i].reduction[1]
            den == metrics[i].reduction[2]
        IN  /\ den # 0
            /\ original > 0 => num * original = (original - summ) * 100 * den
            /\ original = 0 => num = 0
            /\ (original = 100 /\ summ = 20) => num = 80 * den

\* the metrics were computed for an original of no words and a summary of
\* 20 words
C16_Witness ==
    /\ Len(metrics) = 1
    /\ metrics[1].original = 0
    /\ metrics[1].summ = 20
    /\ metrics[1].reduction[1] = 0

\* the uploader holds a pdf whose extraction fails
PdfFails(f) == f.type = "application/pdf" /\ ~ReadPdf(f).ok

\* C17: a script run in which the extraction of the uploaded pdf fails,
\* at the first page or after pages were read, shows the warning and no
\* exception, goes on to the generate handler, and leaves the input text
\* as it was before the file was read: the stored text, or the text the
\* user typed when the run was started by an edit.
C17_PdfFailureWarnsAndKeepsText ==
    [][(pc \in {"Idle", "Rerun"} /\ clock' = clock /\ PdfFails(uploaded')) =>
          /\ Len(shown') >= 1 /\ shown'[1] = PdfWarning
          /\ \A i \in 1..Len(shown') : shown'[i] # "exception:file read"
          /\ event' = "edit" => input_text' \in Texts
          /\ event' # "edit" => input_text' = input_text
          /\ event' = "generate" =>
                \/ pc' = "Summarizing" /\ called'
                \/ shown' = <<PdfWarning>> \o QuotaMsg
                \/ shown' = <<PdfWarning>> \o EmptyMsg]_vars

\* the generate button was pressed with a pdf in the uploader whose
\* second page fails: the warning is shown, the text is the one typed
\* before and the call is in flight
C17_Witness ==
    /\ event = "generate"
    /\ uploaded.type = "application/pdf"
    /\ uploaded.pages = <<"a", "raise">>
    /\ shown = <<PdfWarning>>
    /\ input_text = <<"a", " ", "a">>
    /\ pc = "Summarizing"
====
